---- MODULE Spec2Model ----
(***************************************************************************)
(* SqueezySceney: rescaling the scenes of an adventure archive.            *)
(*                                                                         *)
(* The module models src/scaler.py: Decimal arithmetic and rounding, Point,*)
(* the six entity dataclasses, Scene (create, get_origin, scale_scene,     *)
(* to_json) and AdventureBundle.perform_scaling over a zip archive.        *)
(*                                                                         *)
(* Three specifications share the variables:                               *)
(*   SpecPoint  - Point.translate_point / integer_x / integer_y alone;     *)
(*   SpecScene  - Scene.create followed by calls of Scene.scale_scene;     *)
(*   Spec       - runs of AdventureBundle.perform_scaling on one bundle.   *)
(***************************************************************************)
EXTENDS Integers, Sequences, FiniteSets, TLC

VARIABLES
    calc,        \* SpecPoint: the Points of a two-step and a one-step translation
    scene,       \* SpecScene: the Scene object
    before,      \* SpecScene: the Scene as it was when the last scale_scene was called
    lastScale,   \* SpecScene: the scale of the last scale_scene call
    calls,       \* SpecScene: number of scale_scene calls made
    spc,         \* SpecScene: "ready" | "scaled" | "raised"
    nextId,      \* the next fresh object identity (Python id()) of a mutable value
    scenes,      \* AdventureBundle.scenes: insertion-ordered dict path -> Scene
    filename,    \* AdventureBundle.filename
    inputZip,    \* the input archive of the current run
    outputFile,  \* the file at the output path
    scaleArg,    \* the scale argument of the current run
    idx,         \* position of the scan in input_zip_file.namelist()
    pc,          \* position inside perform_scaling
    run          \* number of perform_scaling calls started on the bundle

vars == <<calc, scene, before, lastScale, calls, spc, nextId, scenes, filename,
          inputZip, outputFile, scaleArg, idx, pc, run>>

pointVars == <<calc>>
sceneVars == <<scene, before, lastScale, calls, spc>>
bundleVars == <<scenes, filename, inputZip, outputFile, scaleArg, idx, pc, run>>

(***************************************************************************)
(* Bounds of the model.                                                    *)
(***************************************************************************)
\* entities per collection of a generated scene document
MaxEnt == 2
\* scale_scene calls on one Scene in SpecScene
MaxCalls == 2
\* perform_scaling runs on one AdventureBundle in Spec
MaxRuns == 2

(***************************************************************************)
(* decimal.Decimal, as an exact rational n/d with d > 0. The values of the *)
(* model stay far below the 28 significant digits of the default context, *)
(* so every operation below is exact, as it is in Python.                  *)
(***************************************************************************)
Dec(n, d) == [n |-> n, d |-> d]

\* Decimal(i) of an int, and the int operand of a mixed int * Decimal
DecOfInt(i) == Dec(i, 1)

DecAdd(a, b) == Dec(a.n * b.d + b.n * a.d, a.d * b.d)

DecSub(a, b) == Dec(a.n * b.d - b.n * a.d, a.d * b.d)

DecMul(a, b) == Dec(a.n * b.n, a.d * b.d)

DecEq(a, b) == a.n * b.d = b.n * a.d

\* a mutant: rounding toward zero
QuantizeTruncate(a) ==
    IF a.n >= 0 THEN a.n \div a.d ELSE -((-a.n) \div a.d)

\* x.quantize(Decimal(1)) then int(): the default context rounds ROUND_HALF_EVEN
Quantize(a) ==
    LET q == a.n \div a.d
        r == a.n % a.d
    IN  IF 2 * r < a.d THEN q
        ELSE IF 2 * r > a.d THEN q + 1
        ELSE IF q % 2 = 0 THEN q ELSE q + 1

(***************************************************************************)
(* Point                                                                   *)
(***************************************************************************)
Point(x, y) == [x |-> x, y |-> y]

_translate_point(origin, point, scale) ==
    LET translated_x == DecAdd(DecMul(origin.x, DecSub(DecOfInt(1), scale)),
                               DecMul(point.x, scale))
        translated_y == DecAdd(DecMul(origin.y, DecSub(DecOfInt(1), scale)),
                               DecMul(point.y, scale))
    IN  Point(translated_x, translated_y)

translate_point(self, origin, scale) == _translate_point(origin, self, scale)

integer_x(self) == Quantize(self.x)

integer_y(self) == Quantize(self.y)

\* an integer-valued Point, as the extractors build it from integer fields
IntPoint(x, y) == Point(DecOfInt(x), DecOfInt(y))

(***************************************************************************)
(* JSON values, as orjson.loads builds them and orjson.dumps writes them.  *)
(* Every value is a record of one shape: t the type, n the number (or 0/1  *)
(* of a bool), s the text of a string or of an opaque dict or list, l the  *)
(* items of a list the transform reads (a wall's c, an entity collection), *)
(* id the object identity of a dict or list in memory (0 in a document on  *)
(* disk; identity is tracked for the values inside entity records).        *)
(***************************************************************************)
JNull == [t |-> "null", n |-> 0, s |-> "", l |-> <<>>, id |-> 0]

JNum(i) == [t |-> "num", n |-> i, s |-> "", l |-> <<>>, id |-> 0]

JStr(x) == [t |-> "str", n |-> 0, s |-> x, l |-> <<>>, id |-> 0]

JBool(b) == [t |-> "bool", n |-> IF b THEN 1 ELSE 0, s |-> "", l |-> <<>>, id |-> 0]

JObj(x) == [t |-> "obj", n |-> 0, s |-> x, l |-> <<>>, id |-> 0]

JArr(items) == [t |-> "arr", n |-> 0, s |-> "", l |-> items, id |-> 0]

\* dict and list values are mutable objects with an identity
IsMutable(v) == v.t \in {"obj", "arr"}

\* Decimal(v) and v * Decimal succeed for an int (a bool is an int in Python);
\* None raises TypeError, and the text values of the model are not numerals
IsNumber(v) == v.t \in {"num", "bool"}

\* dict.get(key): None for an absent key
Get(d, key) == IF key \in DOMAIN d THEN d[key] ELSE JNull

\* dict.get(key, []) of the six entity collections
GetList(d, key) == IF key \in DOMAIN d THEN d[key] ELSE JArr(<<>>)

(***************************************************************************)
(* The entity dataclasses: fields without and with a default.              *)
(***************************************************************************)
Kinds == <<"tokens", "walls", "lights", "sounds", "notes", "drawings">>

Required(kind) ==
    CASE kind = "tokens" ->
           {"_id", "flags", "name", "displayName", "img", "tint", "width", "height",
            "scale", "x", "y", "elevation", "lockRotation", "rotation", "effects",
            "hidden", "vision", "dimSight", "brightSight", "dimLight", "brightLight",
            "sightAngle", "lightAngle", "lightAlpha", "lightAnimation", "actorId",
            "actorLink", "actorData", "disposition", "displayBars", "bar1", "bar2"}
      [] kind = "walls" ->
           {"_id", "flags", "c", "move", "sense", "door", "ds"}
      [] kind = "lights" ->
           {"_id", "flags", "t", "x", "y", "hidden", "rotation", "dim", "bright",
            "angle", "darknessThreshold", "tintAlpha", "lightAnimation"}
      [] kind = "sounds" ->
           {"_id", "flags", "path", "repeat", "volume", "type", "x", "y", "radius",
            "easing"}
      [] kind = "notes" ->
           {"_id", "flags", "entryId", "x", "y", "icon", "iconSize", "iconTint",
            "text", "fontFamily", "fontSize", "textAnchor", "textColor"}
      [] kind = "drawings" ->
           {"_id", "flags", "type", "author", "x", "y", "width", "height", "rotation",
            "z", "hidden", "locked", "points", "bezierFactor", "fillType", "fillColor",
            "fillAlpha", "strokeWidth", "strokeColor", "strokeAlpha", "texture",
            "text", "fontFamily", "fontSize", "textColor", "textAlpha"}

\* the fields with a default, at their defaults
Defaults(kind) ==
    CASE kind = "tokens" -> [mirrorX |-> JNull, mirrorY |-> JNull, lightColor |-> JNull]
      [] kind = "walls" -> [dir |-> JNum(0)]
      [] kind = "lights" -> [tintColor |-> JStr("")]
      [] OTHER -> <<>>

\* Token(**token), Wall(**wall), ...: TypeError on a missing required argument
\* and on an unexpected keyword; no field's type is checked
CanConstruct(kind, kwargs) ==
    /\ Required(kind) \subseteq DOMAIN kwargs
    /\ DOMAIN kwargs \subseteq Required(kind) \cup DOMAIN Defaults(kind)

\* the dataclass instance: the arguments given, the defaults for the rest
Construct(kind, kwargs) == kwargs @@ Defaults(kind)

(***************************************************************************)
(* Object identities. A record's dict and list values take the identities  *)
(* base + (index in MutableOrder) - 1; IdStride identities are reserved a  *)
(* record.                                                                 *)
(***************************************************************************)
MutableOrder ==
    <<"flags", "effects", "lightAnimation", "actorData", "bar1", "bar2", "c", "points">>

IdStride == Len(MutableOrder)

MutableIndex(f) == (CHOOSE i \in 1..Len(MutableOrder) : MutableOrder[i] = f) - 1

\* the record with every dict and list it holds in fields MutableOrder[i..] made
\* a new object
RECURSIVE Identified(_, _, _)
Identified(record, base, i) ==
    IF i > Len(MutableOrder) THEN record
    ELSE IF MutableOrder[i] \in DOMAIN record /\ IsMutable(record[MutableOrder[i]])
    THEN Identified([record EXCEPT ![MutableOrder[i]].id = base + i - 1], base, i + 1)
    ELSE Identified(record, base, i + 1)

\* a mutant: copy.copy, which shares the nested dicts and lists
ShallowCopy(entity, base) == entity

\* copy.deepcopy of an entity: every nested dict and list is a new object
deepcopy(entity, base) == Identified(entity, base, 1)

\* the identities of the mutable values an entity record holds
IdsOf(entity) == {entity[f].id : f \in {g \in DOMAIN entity : IsMutable(entity[g])}}

(***************************************************************************)
(* Point extractors                                                        *)
(***************************************************************************)
\* Decimal(data.x), Decimal(data.y) raise on None
HasXY(data) == IsNumber(data["x"]) /\ IsNumber(data["y"])

get_point_from_token(token_data) == IntPoint(token_data["x"].n, token_data["y"].n)

get_point_from_light(light_data) == IntPoint(light_data["x"].n, light_data["y"].n)

get_point_from_sound(sound_data) == IntPoint(sound_data["x"].n, sound_data["y"].n)

get_point_from_note(note_data) == IntPoint(note_data["x"].n, note_data["y"].n)

get_point_from_drawing(drawing_data) == IntPoint(drawing_data["x"].n, drawing_data["y"].n)

\* coords[0..3] of wall_data.c: TypeError on None, IndexError on a short list
HasEndpoints(wall_data) == wall_data["c"].t = "arr" /\ Len(wall_data["c"].l) >= 4

get_points_from_walls(wall_data) ==
    LET coords == wall_data["c"].l
    IN  <<IntPoint(coords[1], coords[2]), IntPoint(coords[3], coords[4])>>

\* the extractor each collection's method calls
PointOf(kind, data) ==
    CASE kind = "tokens" -> get_point_from_token(data)
      [] kind = "lights" -> get_point_from_light(data)
      [] kind = "sounds" -> get_point_from_sound(data)
      [] kind = "notes" -> get_point_from_note(data)
      [] kind = "drawings" -> get_point_from_drawing(data)

(***************************************************************************)
(* Scene                                                                   *)
(***************************************************************************)
KindSet == {Kinds[i] : i \in 1..Len(Kinds)}

KindIndex(k) == CHOOSE c \in 1..Len(Kinds) : Kinds[c] = k

\* the five sizing attributes scale_scene rescales, in the order it does
SizingOrder == <<"width", "height", "grid", "shift_x", "shift_y">>

SizingAttrs == {SizingOrder[m] : m \in 1..Len(SizingOrder)}

SizingIndex(a) == CHOOSE m \in 1..Len(SizingOrder) : SizingOrder[m] = a

\* the document keys of the sizing attributes
SizingKeys == {"width", "height", "grid", "shiftX", "shiftY"}

\* the document keys of the attributes Scene annotates with a type that is not
\* Optional and Scene.create reads without a default
RequiredSceneKeys ==
    {"_id", "name", "folder", "sort", "flags", "description", "navigation", "navOrder",
     "navName", "active", "initial", "img", "thumb", "width", "height", "padding",
     "backgroundColor", "tiles", "gridType", "grid", "shiftX", "shiftY", "gridColor",
     "gridAlpha", "gridDistance", "gridUnits", "tokenVision", "fogExploration",
     "globalLight", "darkness", "playlist", "templates", "journal", "weather"}

\* [Token(**token) for token in scene_data.get('tokens', [])] raises when the value
\* is no list or an item cannot be constructed
CanCreate(scene_data) ==
    \A k \in KindSet :
        LET v == GetList(scene_data, k)
        IN  /\ v.t = "arr"
            /\ \A i \in 1..Len(v.l) : CanConstruct(k, v.l[i])

\* [Token(**token) for token in ...]: the instances in the order of the list
RECURSIVE ConstructEach(_, _)
ConstructEach(kind, items) ==
    IF Len(items) = 0 THEN <<>>
    ELSE <<Construct(kind, Head(items))>> \o ConstructEach(kind, Tail(items))

create(scene_data) ==
    [ _id |-> Get(scene_data, "_id"),
      name |-> Get(scene_data, "name"),
      folder |-> Get(scene_data, "folder"),
      sort |-> Get(scene_data, "sort"),
      flags |-> Get(scene_data, "flags"),
      description |-> Get(scene_data, "description"),
      navigation |-> Get(scene_data, "navigation"),
      nav_order |-> Get(scene_data, "navOrder"),
      nav_name |-> Get(scene_data, "navName"),
      active |-> Get(scene_data, "active"),
      initial |-> Get(scene_data, "initial"),
      img |-> Get(scene_data, "img"),
      thumb |-> Get(scene_data, "thumb"),
      width |-> Get(scene_data, "width"),
      height |-> Get(scene_data, "height"),
      padding |-> Get(scene_data, "padding"),
      background_color |-> Get(scene_data, "backgroundColor"),
      tiles |-> Get(scene_data, "tiles"),
      grid_type |-> Get(scene_data, "gridType"),
      grid |-> Get(scene_data, "grid"),
      shift_x |-> Get(scene_data, "shiftX"),
      shift_y |-> Get(scene_data, "shiftY"),
      grid_color |-> Get(scene_data, "gridColor"),
      grid_alpha |-> Get(scene_data, "gridAlpha"),
      grid_distance |-> Get(scene_data, "gridDistance"),
      grid_units |-> Get(scene_data, "gridUnits"),
      tokens |-> ConstructEach("tokens", GetList(scene_data, "tokens").l),
      walls |-> ConstructEach("walls", GetList(scene_data, "walls").l),
      token_vision |-> Get(scene_data, "tokenVision"),
      fog_exploration |-> Get(scene_data, "fogExploration"),
      lights |-> ConstructEach("lights", GetList(scene_data, "lights").l),
      global_light |-> Get(scene_data, "globalLight"),
      global_light_threshold |-> Get(scene_data, "globalLightThreshold"),
      darkness |-> Get(scene_data, "darkness"),
      playlist |-> Get(scene_data, "playlist"),
      sounds |-> ConstructEach("sounds", GetList(scene_data, "sounds").l),
      templates |-> Get(scene_data, "templates"),
      journal |-> Get(scene_data, "journal"),
      notes |-> ConstructEach("notes", GetList(scene_data, "notes").l),
      weather |-> Get(scene_data, "weather"),
      drawings |-> ConstructEach("drawings", GetList(scene_data, "drawings").l),
      size |-> Get(scene_data, "size") ]

\* Decimal(self.shift_x) raises on None
HasOrigin(self) == IsNumber(self["shift_x"]) /\ IsNumber(self["shift_y"])

\* a mutant: the canvas corner (0,0) as the origin
OriginAtCorner(self) == Point(Dec(0, 1), Dec(0, 1))

get_origin(self) ==
    LET x == DecMul(DecOfInt(self["shift_x"].n), Dec(1, 2))
        y == DecMul(DecOfInt(self["shift_y"].n), Dec(1, 2))
    IN  Point(x, y)

\* the result of a method that may raise: the object as the method left it
Outcome(ok, self, nid) == [ok |-> ok, scene |-> self, nid |-> nid]

\* the body of the loops of _scale_tokens, _scale_lights, _scale_sounds,
\* _scale_notes and _scale_drawings: deepcopy, then x and y replaced
ScaledCopy(entity, point, origin, scale, base) ==
    LET scaled_point == translate_point(point, origin, scale)
        new_entity == deepcopy(entity, base)
    IN  [new_entity EXCEPT !["x"] = JNum(integer_x(scaled_point)),
                           !["y"] = JNum(integer_y(scaled_point))]

\* the body of the loop of _scale_walls: c is a new list of the two scaled endpoints
ScaledWall(wall, origin, scale, base) ==
    LET wall_points == get_points_from_walls(wall)
        p1 == translate_point(wall_points[1], origin, scale)
        p2 == translate_point(wall_points[2], origin, scale)
        scaled_wall_points == <<integer_x(p1), integer_y(p1), integer_x(p2), integer_y(p2)>>
        new_wall == deepcopy(wall, base)
    IN  [new_wall EXCEPT !["c"] =
            [JArr(scaled_wall_points) EXCEPT !.id = base + MutableIndex("c")]]

\* the loop "for entity in collection: ... resized.append(new_entity)"
RECURSIVE ScaleEach(_, _, _, _, _)
ScaleEach(kind, entities, origin, scale, base) ==
    IF Len(entities) = 0 THEN <<>>
    ELSE <<ScaledCopy(Head(entities), PointOf(kind, Head(entities)), origin, scale, base)>>
         \o ScaleEach(kind, Tail(entities), origin, scale, base + IdStride)

RECURSIVE ScaleEachWall(_, _, _, _)
ScaleEachWall(walls, origin, scale, base) ==
    IF Len(walls) = 0 THEN <<>>
    ELSE <<ScaledWall(Head(walls), origin, scale, base)>>
         \o ScaleEachWall(Tail(walls), origin, scale, base + IdStride)

RECURSIVE Reverse(_)
Reverse(q) == IF Len(q) = 0 THEN <<>> ELSE Append(Reverse(Tail(q)), Head(q))

\* whether the loop of a collection's method gets through every entity
CanScale(self, kind) ==
    IF kind = "walls"
    THEN \A i \in 1..Len(self[kind]) : HasEndpoints(self[kind][i])
    ELSE \A i \in 1..Len(self[kind]) : HasXY(self[kind][i])

\* a mutant: the scaled tokens collected in reverse order
ScaleTokensReversed(self, origin, scale, nid) ==
    IF CanScale(self, "tokens")
    THEN Outcome(TRUE,
            [self EXCEPT !["tokens"] = Reverse(ScaleEach("tokens", @, origin, scale, nid))],
            nid + Len(self["tokens"]) * IdStride)
    ELSE Outcome(FALSE, self, nid)

\* each method assigns its collection after the loop: a raise inside the loop
\* leaves the collection as it was
_scale_tokens(self, origin, scale, nid) ==
    IF CanScale(self, "tokens")
    THEN Outcome(TRUE,
            [self EXCEPT !["tokens"] = ScaleEach("tokens", @, origin, scale, nid)],
            nid + Len(self["tokens"]) * IdStride)
    ELSE Outcome(FALSE, self, nid)

_scale_walls(self, origin, scale, nid) ==
    IF CanScale(self, "walls")
    THEN Outcome(TRUE,
            [self EXCEPT !["walls"] = ScaleEachWall(@, origin, scale, nid)],
            nid + Len(self["walls"]) * IdStride)
    ELSE Outcome(FALSE, self, nid)

_scale_lights(self, origin, scale, nid) ==
    IF CanScale(self, "lights")
    THEN Outcome(TRUE,
            [self EXCEPT !["lights"] = ScaleEach("lights", @, origin, scale, nid)],
            nid + Len(self["lights"]) * IdStride)
    ELSE Outcome(FALSE, self, nid)

_scale_sounds(self, origin, scale, nid) ==
    IF CanScale(self, "sounds")
    THEN Outcome(TRUE,
            [self EXCEPT !["sounds"] = ScaleEach("sounds", @, origin, scale, nid)],
            nid + Len(self["sounds"]) * IdStride)
    ELSE Outcome(FALSE, self, nid)

_scale_notes(self, origin, scale, nid) ==
    IF CanScale(self, "notes")
    THEN Outcome(TRUE,
            [self EXCEPT !["notes"] = ScaleEach("notes", @, origin, scale, nid)],
            nid + Len(self["notes"]) * IdStride)
    ELSE Outcome(FALSE, self, nid)

_scale_drawings(self, origin, scale, nid) ==
    IF CanScale(self, "drawings")
    THEN Outcome(TRUE,
            [self EXCEPT !["drawings"] = ScaleEach("drawings", @, origin, scale, nid)],
            nid + Len(self["drawings"]) * IdStride)
    ELSE Outcome(FALSE, self, nid)

\* a mutant: the sizing field truncated instead of rounded
SizeTruncated(value, scale) == QuantizeTruncate(DecMul(DecOfInt(value), scale))

\* int((value * scale).quantize(Decimal(1)))
ScaledSize(value, scale) == Quantize(DecMul(DecOfInt(value), scale))

\* the entities of the collections scale_scene handles before collection c
RECURSIVE HeldBefore(_, _)
HeldBefore(self, c) ==
    IF c <= 1 THEN 0 ELSE HeldBefore(self, c - 1) + Len(self[Kinds[c - 1]])

\* scale_scene gets past its collection c: get_origin returned and the methods of
\* collections 1..c did not raise
Past(self, c) == HasOrigin(self) /\ \A j \in 1..c : CanScale(self, Kinds[j])

\* scale_scene gets past the assignment of its sizing attribute m
PastSize(self, m) ==
    Past(self, Len(Kinds)) /\ \A j \in 1..m : IsNumber(self[SizingOrder[j]])

\* scale_scene returns
Returns(self) == PastSize(self, Len(SizingOrder))

\* the next free identity after scale_scene: one deepcopy for every entity of the
\* collections whose method ran to its end
IdsAfter(self, nid) ==
    nid + HeldBefore(self, Cardinality({c \in 1..Len(Kinds) : Past(self, c)}) + 1) * IdStride

\* scale_scene, with the identities its deepcopies take from nid on. The six
\* collection methods run in order, each reading and assigning its own collection
\* only, then the five sizing attributes are assigned in order; a raise ends the
\* call and leaves the object with the assignments made before it.
scale_scene(self, scale, nid) ==
    IF ~HasOrigin(self) THEN Outcome(FALSE, self, nid)
    ELSE
    LET origin == get_origin(self)
        base(c) == nid + HeldBefore(self, c) * IdStride
        stage(c) ==
            CASE c = 1 -> _scale_tokens(self, origin, scale, base(1))
              [] c = 2 -> _scale_walls(self, origin, scale, base(2))
              [] c = 3 -> _scale_lights(self, origin, scale, base(3))
              [] c = 4 -> _scale_sounds(self, origin, scale, base(4))
              [] c = 5 -> _scale_notes(self, origin, scale, base(5))
              [] c = 6 -> _scale_drawings(self, origin, scale, base(6))
        sized(a) ==
            IF PastSize(self, SizingIndex(a))
            THEN JNum(ScaledSize(self[a].n, scale)) ELSE self[a]
        held(k) ==
            IF Past(self, KindIndex(k)) THEN stage(KindIndex(k)).scene[k] ELSE self[k]
    IN  Outcome(Returns(self),
            [self EXCEPT !["tokens"] = held("tokens"),
                         !["walls"] = held("walls"),
                         !["lights"] = held("lights"),
                         !["sounds"] = held("sounds"),
                         !["notes"] = held("notes"),
                         !["drawings"] = held("drawings"),
                         !["width"] = sized("width"),
                         !["height"] = sized("height"),
                         !["grid"] = sized("grid"),
                         !["shift_x"] = sized("shift_x"),
                         !["shift_y"] = sized("shift_y")],
            IdsAfter(self, nid))

\* orjson.dumps writes a value without its identity
Plain(v) == [v EXCEPT !.id = 0]

RECURSIVE PlainEntity(_, _)
PlainEntity(entity, i) ==
    IF i > Len(MutableOrder) THEN entity
    ELSE IF MutableOrder[i] \in DOMAIN entity
    THEN PlainEntity([entity EXCEPT ![MutableOrder[i]].id = 0], i + 1)
    ELSE PlainEntity(entity, i + 1)

\* a list of dataclass instances, written as a list of objects of all their fields
RECURSIVE DumpEach(_)
DumpEach(entities) ==
    IF Len(entities) = 0 THEN <<>>
    ELSE <<PlainEntity(Head(entities), 1)>> \o DumpEach(Tail(entities))

\* the dict to_json builds and orjson.dumps writes
to_json(self) ==
    [ _id |-> Plain(self["_id"]),
      name |-> Plain(self["name"]),
      folder |-> Plain(self["folder"]),
      sort |-> Plain(self["sort"]),
      flags |-> Plain(self["flags"]),
      description |-> Plain(self["description"]),
      navigation |-> Plain(self["description"]),
      navOrder |-> Plain(self["nav_order"]),
      navName |-> Plain(self["nav_name"]),
      active |-> Plain(self["active"]),
      initial |-> Plain(self["initial"]),
      img |-> Plain(self["img"]),
      thumb |-> Plain(self["thumb"]),
      width |-> Plain(self["width"]),
      height |-> Plain(self["height"]),
      padding |-> Plain(self["padding"]),
      backgroundColor |-> Plain(self["background_color"]),
      tiles |-> Plain(self["tiles"]),
      gridType |-> Plain(self["grid_type"]),
      grid |-> Plain(self["grid"]),
      shiftX |-> Plain(self["shift_x"]),
      shiftY |-> Plain(self["shift_y"]),
      gridColor |-> Plain(self["grid_color"]),
      gridAlpha |-> Plain(self["grid_alpha"]),
      gridDistance |-> Plain(self["grid_distance"]),
      gridUnits |-> Plain(self["grid_units"]),
      tokens |-> JArr(DumpEach(self["tokens"])),
      walls |-> JArr(DumpEach(self["walls"])),
      tokenVision |-> Plain(self["token_vision"]),
      fogExploration |-> Plain(self["fog_exploration"]),
      lights |-> JArr(DumpEach(self["lights"])),
      globalLight |-> Plain(self["global_light"]),
      globalLightThreshold |-> Plain(self["global_light_threshold"]),
      darkness |-> Plain(self["darkness"]),
      playlist |-> Plain(self["playlist"]),
      sounds |-> JArr(DumpEach(self["sounds"])),
      templates |-> Plain(self["templates"]),
      journal |-> Plain(self["journal"]),
      notes |-> JArr(DumpEach(self["notes"])),
      weather |-> Plain(self["weather"]),
      drawings |-> JArr(DumpEach(self["drawings"])),
      size |-> Plain(self["size"]) ]

(***************************************************************************)
(* Scene documents: orjson.loads gives every dict and list of an entity    *)
(* record a new identity.                                                  *)
(***************************************************************************)
CollLen(doc, c) ==
    IF Kinds[c] \in DOMAIN doc /\ doc[Kinds[c]].t = "arr" THEN Len(doc[Kinds[c]].l) ELSE 0

RECURSIVE EntitiesBefore(_, _)
EntitiesBefore(doc, c) ==
    IF c <= 1 THEN 0 ELSE EntitiesBefore(doc, c - 1) + CollLen(doc, c - 1)

EntityCount(doc) == EntitiesBefore(doc, Len(Kinds) + 1)

RECURSIVE IdentifyEach(_, _)
IdentifyEach(items, base) ==
    IF Len(items) = 0 THEN <<>>
    ELSE <<Identified(Head(items), base, 1)>> \o IdentifyEach(Tail(items), base + IdStride)

RECURSIVE LoadKinds(_, _, _)
LoadKinds(doc, nid, c) ==
    IF c > Len(Kinds) THEN doc
    ELSE IF CollLen(doc, c) > 0
    THEN LoadKinds([doc EXCEPT ![Kinds[c]].l = IdentifyEach(@, nid)],
                   nid + CollLen(doc, c) * IdStride, c + 1)
    ELSE LoadKinds(doc, nid, c + 1)

\* the parsed document, its entity records' dicts and lists identified from nid on
loads(doc, nid) == LoadKinds(doc, nid, 1)

(***************************************************************************)
(* The documents the specifications draw their inputs from.                *)
(***************************************************************************)
Dict == JObj("{}")

List == JArr(<<>>)

\* a record of each entity type as the exporter writes it, with the required
\* fields only; the transform reads x and y (c of a wall) and copies the rest
SampleEntity(kind) ==
    CASE kind = "tokens" ->
           [ _id |-> JStr("t"), flags |-> Dict, name |-> JStr("Orc"), displayName |-> JNum(1),
             img |-> JStr("orc.png"), tint |-> JNull, width |-> JNum(1), height |-> JNum(1),
             scale |-> JNum(1), x |-> JNum(0), y |-> JNum(0), elevation |-> JNum(0),
             lockRotation |-> JBool(FALSE), rotation |-> JNum(0), effects |-> List,
             hidden |-> JBool(FALSE), vision |-> JBool(TRUE), dimSight |-> JNum(60),
             brightSight |-> JNum(0), dimLight |-> JNum(0), brightLight |-> JNum(0),
             sightAngle |-> JNum(360), lightAngle |-> JNum(360), lightAlpha |-> JNum(1),
             lightAnimation |-> Dict, actorId |-> JStr("a1"), actorLink |-> JBool(FALSE),
             actorData |-> Dict, disposition |-> JNum(-1), displayBars |-> JNum(1),
             bar1 |-> Dict, bar2 |-> Dict ]
      [] kind = "walls" ->
           [ _id |-> JStr("w"), flags |-> Dict, c |-> JArr(<<0, 0, 0, 0>>), move |-> JNum(1),
             sense |-> JNum(1), door |-> JNum(0), ds |-> JNum(0) ]
      [] kind = "lights" ->
           [ _id |-> JStr("l"), flags |-> Dict, t |-> JStr("l"), x |-> JNum(0), y |-> JNum(0),
             hidden |-> JBool(FALSE), rotation |-> JNum(0), dim |-> JNum(20),
             bright |-> JNum(10), angle |-> JNum(360), darknessThreshold |-> JNum(0),
             tintAlpha |-> JNum(1), lightAnimation |-> Dict ]
      [] kind = "sounds" ->
           [ _id |-> JStr("s"), flags |-> Dict, path |-> JStr("drip.ogg"),
             repeat |-> JBool(TRUE), volume |-> JNum(1), type |-> JStr("l"), x |-> JNum(0),
             y |-> JNum(0), radius |-> JNum(30), easing |-> JBool(TRUE) ]
      [] kind = "notes" ->
           [ _id |-> JStr("n"), flags |-> Dict, entryId |-> JStr("j1"), x |-> JNum(0),
             y |-> JNum(0), icon |-> JStr("book.svg"), iconSize |-> JNum(40),
             iconTint |-> JStr(""), text |-> JStr(""), fontFamily |-> JStr("Signika"),
             fontSize |-> JNum(48), textAnchor |-> JNum(1), textColor |-> JStr("#FFFFFF") ]
      [] kind = "drawings" ->
           [ _id |-> JStr("d"), flags |-> Dict, type |-> JStr("r"), author |-> JStr("u1"),
             x |-> JNum(0), y |-> JNum(0), width |-> JNum(40), height |-> JNum(30),
             rotation |-> JNum(0), z |-> JNum(0), hidden |-> JBool(FALSE),
             locked |-> JBool(FALSE), points |-> List, bezierFactor |-> JNum(0),
             fillType |-> JNum(0), fillColor |-> JStr("#000000"), fillAlpha |-> JNum(1),
             strokeWidth |-> JNum(8), strokeColor |-> JStr("#FFFFFF"),
             strokeAlpha |-> JNum(1), texture |-> JStr(""), text |-> JStr(""),
             fontFamily |-> JStr("Signika"), fontSize |-> JNum(48),
             textColor |-> JStr("#FFFFFF"), textAlpha |-> JNum(1) ]

\* entity number i of its collection, at p (a wall from p to (p.y, p.x + 100))
EntityDoc(kind, i, p) ==
    IF kind = "walls"
    THEN [SampleEntity(kind) EXCEPT !["_id"] = JStr(kind \o ToString(i)),
                                    !["c"] = JArr(<<p[1], p[2], p[2], p[1] + 100>>)]
    ELSE [SampleEntity(kind) EXCEPT !["_id"] = JStr(kind \o ToString(i)),
                                    !["x"] = JNum(p[1]),
                                    !["y"] = JNum(p[2])]

RECURSIVE EntityDocs(_, _, _)
EntityDocs(kind, pts, i) ==
    IF i > Len(pts) THEN <<>>
    ELSE <<EntityDoc(kind, i, pts[i])>> \o EntityDocs(kind, pts, i + 1)

\* a scene document as the exporter writes it, with every key Scene.create reads
SampleScene ==
    [ _id |-> JStr("sc1"), name |-> JStr("Cave"), folder |-> JNull, sort |-> JNum(100),
      flags |-> Dict, description |-> JStr("a cave"), navigation |-> JBool(TRUE),
      navOrder |-> JNum(2), navName |-> JStr(""), active |-> JBool(FALSE),
      initial |-> Dict, img |-> JStr("cave.jpg"), thumb |-> JStr("cave.thumb.png"),
      width |-> JNum(1000), height |-> JNum(800), padding |-> JNum(0),
      backgroundColor |-> JStr("#999999"), tiles |-> List, gridType |-> JNum(1),
      grid |-> JNum(100), shiftX |-> JNum(0), shiftY |-> JNum(0),
      gridColor |-> JStr("#000000"), gridAlpha |-> JNum(1), gridDistance |-> JNum(5),
      gridUnits |-> JStr("ft"), tokens |-> List, walls |-> List,
      tokenVision |-> JBool(TRUE), fogExploration |-> JBool(TRUE), lights |-> List,
      globalLight |-> JBool(FALSE), globalLightThreshold |-> JNull, darkness |-> JNum(0),
      playlist |-> JStr(""), sounds |-> List, templates |-> List, journal |-> JStr(""),
      notes |-> List, weather |-> JStr(""), drawings |-> List, size |-> JNull ]

Positions == {<<125, 25>>, <<0, 0>>, <<-7, 12>>}

RECURSIVE SeqsUpTo(_, _)
SeqsUpTo(S, n) ==
    IF n = 0 THEN {<<>>}
    ELSE LET shorter == SeqsUpTo(S, n - 1)
         IN  shorter \cup {Append(q, x) : q \in {r \in shorter : Len(r) = n - 1}, x \in S}

PositionLists == SeqsUpTo(Positions, MaxEnt)

\* width, height, grid, shiftX, shiftY
Geometries == {<<1000, 800, 100, 50, 50>>, <<7, 5, 3, 3, -5>>, <<30, 20, 10, 0, 0>>}

\* tokens, walls and lights at pts; sounds, notes and drawings at all but the first
SceneDoc(geo, pts) ==
    [SampleScene EXCEPT
        !["width"] = JNum(geo[1]), !["height"] = JNum(geo[2]), !["grid"] = JNum(geo[3]),
        !["shiftX"] = JNum(geo[4]), !["shiftY"] = JNum(geo[5]),
        !["tokens"] = JArr(EntityDocs("tokens", pts, 1)),
        !["walls"] = JArr(EntityDocs("walls", pts, 1)),
        !["lights"] = JArr(EntityDocs("lights", pts, 1)),
        !["sounds"] = JArr(EntityDocs("sounds", pts, 2)),
        !["notes"] = JArr(EntityDocs("notes", pts, 2)),
        !["drawings"] = JArr(EntityDocs("drawings", pts, 2))]

\* the document without one key
Without(doc, key) == [k \in DOMAIN doc \ {key} |-> doc[k]]

\* the document with one key set
With(doc, key, value) == (key :> value) @@ doc

DefectBase == SceneDoc(<<1000, 800, 100, 50, 50>>, <<(<<125, 25>>)>>)

\* documents Scene.create accepts and scale_scene raises on
RaisingDocs ==
    { Without(DefectBase, "width"),
      With(DefectBase, "shiftX", JNull),
      With(DefectBase, "grid", JStr("big")),
      With(DefectBase, "notes", JArr(<<With(EntityDoc("notes", 1, <<0, 0>>), "x", JNull)>>)),
      With(DefectBase, "walls", JArr(<<With(EntityDoc("walls", 1, <<0, 0>>), "c", JArr(<<1, 2>>))>>)) }

ScalableDocs == {SceneDoc(geo, pts) : geo \in Geometries, pts \in PositionLists}

\* Decimal(scale_ratio) of a float click accepts in [0.1, 10]; these are exact in binary
Scales == {Dec(1, 2), Dec(1, 1), Dec(3, 2), Dec(2, 1)}

(***************************************************************************)
(* The variables of the specifications that do not use them.               *)
(***************************************************************************)
NoFile == [exists |-> FALSE, valid |-> FALSE, entries |-> <<>>]

PointIdle == calc = [pc |-> "idle"]

SceneIdle ==
    /\ scene = <<>>
    /\ before = <<>>
    /\ lastScale = Dec(1, 1)
    /\ calls = 0
    /\ spc = "idle"

BundleIdle ==
    /\ scenes = <<>>
    /\ filename = "None"
    /\ inputZip = NoFile
    /\ outputFile = NoFile
    /\ scaleArg = Dec(1, 1)
    /\ idx = 0
    /\ pc = "idle"
    /\ run = 0

(***************************************************************************)
(* SpecPoint: a Point translated about an origin by s1 and rounded, the    *)
(* result translated about the same origin by s2 and rounded; and the      *)
(* Point translated once by s1 * s2 and rounded.                           *)
(***************************************************************************)
\* origins as get_origin builds them: halves of integer shifts
Origins == {Point(Dec(0, 2), Dec(0, 2)), Point(Dec(3, 2), Dec(-5, 2)),
            Point(Dec(50, 2), Dec(50, 2))}

PointInputs == {<<1, 0>>, <<3, 3>>, <<125, 25>>, <<-7, 12>>}

\* Decimal(float) of ratios in [0.1, 10] that are exact in binary
PointScales == {Dec(1, 4), Dec(1, 2), Dec(3, 2), Dec(2, 1), Dec(10, 1)}

\* the Point of the rounded coordinates, as the scaled entity stores them
Rounded(p) == IntPoint(integer_x(p), integer_y(p))

InitPoint ==
    /\ \E o \in Origins, p \in PointInputs, s1 \in PointScales, s2 \in PointScales :
          calc = [pc |-> "start", origin |-> o, point |-> IntPoint(p[1], p[2]),
                  s1 |-> s1, s2 |-> s2, first |-> IntPoint(p[1], p[2]),
                  second |-> IntPoint(p[1], p[2]), single |-> IntPoint(p[1], p[2])]
    /\ nextId = 1
    /\ SceneIdle
    /\ BundleIdle

TranslateFirst ==
    /\ calc.pc = "start"
    /\ calc' = [calc EXCEPT !.pc = "first",
                    !.first = Rounded(translate_point(calc.point, calc.origin, calc.s1))]
    /\ UNCHANGED <<sceneVars, bundleVars, nextId>>

TranslateSecond ==
    /\ calc.pc = "first"
    /\ calc' = [calc EXCEPT !.pc = "second",
                    !.second = Rounded(translate_point(calc.first, calc.origin, calc.s2))]
    /\ UNCHANGED <<sceneVars, bundleVars, nextId>>

TranslateSingle ==
    /\ calc.pc = "second"
    /\ calc' = [calc EXCEPT !.pc = "done",
                    !.single = Rounded(translate_point(calc.point, calc.origin,
                                                       DecMul(calc.s1, calc.s2)))]
    /\ UNCHANGED <<sceneVars, bundleVars, nextId>>

NextPoint == TranslateFirst \/ TranslateSecond \/ TranslateSingle

SpecPoint == InitPoint /\ [][NextPoint]_vars

(***************************************************************************)
(* SpecScene: a Scene built by Scene.create from a parsed document, then   *)
(* scale_scene called on it, up to MaxCalls times.                         *)
(***************************************************************************)
InitScene ==
    /\ \E doc \in ScalableDocs \cup RaisingDocs :
          /\ CanCreate(doc)
          /\ scene = create(loads(doc, 1))
          /\ before = create(loads(doc, 1))
          /\ nextId = 1 + EntityCount(doc) * IdStride
    /\ lastScale = Dec(1, 1)
    /\ calls = 0
    /\ spc = "ready"
    /\ PointIdle
    /\ BundleIdle

\* scale_scene(scale) returns
ScaleReturns ==
    /\ spc \in {"ready", "scaled"}
    /\ calls < MaxCalls
    /\ \E scale \in Scales :
          LET r == scale_scene(scene, scale, nextId)
          IN  /\ r.ok
              /\ scene' = r.scene
              /\ nextId' = r.nid
              /\ lastScale' = scale
    /\ before' = scene
    /\ calls' = calls + 1
    /\ spc' = "scaled"
    /\ UNCHANGED <<pointVars, bundleVars>>

\* scale_scene(scale) raises
ScaleRaises ==
    /\ spc \in {"ready", "scaled"}
    /\ calls < MaxCalls
    /\ \E scale \in Scales :
          LET r == scale_scene(scene, scale, nextId)
          IN  /\ ~r.ok
              /\ scene' = r.scene
              /\ nextId' = r.nid
              /\ lastScale' = scale
    /\ before' = scene
    /\ calls' = calls + 1
    /\ spc' = "raised"
    /\ UNCHANGED <<pointVars, bundleVars>>

NextScene == ScaleReturns \/ ScaleRaises

SpecScene == InitScene /\ [][NextScene]_vars

(***************************************************************************)
(* Archives. An entry is a name and its bytes. A name is its directory     *)
(* parts, the stem and the extension of its last part. Bytes are either    *)
(* opaque (numbered) or a JSON text: the document it parses to and how the *)
(* text is laid out, which parsing forgets and orjson.dumps fixes.         *)
(***************************************************************************)
Name(dirs, stem, ext) == [dirs |-> dirs, stem |-> stem, ext |-> ext]

Bytes(n) == [kind |-> "bytes", n |-> n, layout |-> "none", doc |-> <<>>]

JsonText(doc, layout) == [kind |-> "json", n |-> 0, layout |-> layout, doc |-> doc]

Entry(name, data) == [name |-> name, data |-> data]

ZipOf(entries) == [exists |-> TRUE, valid |-> TRUE, entries |-> entries]

\* a file that is no zip archive
NotAZip == [exists |-> TRUE, valid |-> FALSE, entries |-> <<>>]

\* a mutant: every .json entry taken for a scene
MatchAnyJson(name) == name.ext = "json"

\* Path(name).match('scene/*.json'): a relative pattern matches from the right,
\* so the last directory part is scene and the file name ends in .json
PathMatch(name) ==
    /\ name.ext = "json"
    /\ Len(name.dirs) >= 1
    /\ name.dirs[Len(name.dirs)] = "scene"

\* orjson.loads raises on bytes that are no JSON text
CanLoad(data) == data.kind = "json"

\* Scene.from_json_string(json_string) returns
CanParseScene(data) == CanLoad(data) /\ CanCreate(data.doc)

from_json_string(data, nid) == create(loads(data.doc, nid))

\* scene.to_json(): orjson.dumps(output_dict).decode('utf-8')
dumps(self) == JsonText(to_json(self), "compact")

\* self.scenes[key] = value on an insertion-ordered dict
RECURSIVE DictSet(_, _, _)
DictSet(d, key, value) ==
    IF Len(d) = 0 THEN <<[key |-> key, scene |-> value]>>
    ELSE IF Head(d).key = key THEN <<[key |-> key, scene |-> value]>> \o Tail(d)
    ELSE <<Head(d)>> \o DictSet(Tail(d), key, value)

\* scale_scenes: scale_scene on every held scene in dict order; a raise ends the
\* loop and leaves the scenes after it as they were
RECURSIVE AllReturn(_)
AllReturn(d) ==
    IF Len(d) = 0 THEN TRUE ELSE Returns(Head(d).scene) /\ AllReturn(Tail(d))

RECURSIVE ScaledScenes(_, _, _)
ScaledScenes(d, scale, nid) ==
    IF Len(d) = 0 THEN <<>>
    ELSE <<[key |-> Head(d).key, scene |-> scale_scene(Head(d).scene, scale, nid).scene]>>
         \o (IF Returns(Head(d).scene)
             THEN ScaledScenes(Tail(d), scale, IdsAfter(Head(d).scene, nid))
             ELSE Tail(d))

RECURSIVE IdsAfterScenes(_, _)
IdsAfterScenes(d, nid) ==
    IF Len(d) = 0 THEN nid
    ELSE IF Returns(Head(d).scene)
         THEN IdsAfterScenes(Tail(d), IdsAfter(Head(d).scene, nid))
         ELSE IdsAfter(Head(d).scene, nid)

scale_scenes(d, scale, nid) ==
    [ok |-> AllReturn(d), scenes |-> ScaledScenes(d, scale, nid), nid |-> IdsAfterScenes(d, nid)]

\* for scene_filename, scene in self.scenes.items(): writestr(scene_filename, to_json())
RECURSIVE WrittenScenes(_)
WrittenScenes(d) ==
    IF Len(d) = 0 THEN <<>>
    ELSE <<Entry(Head(d).key, dumps(Head(d).scene))>> \o WrittenScenes(Tail(d))

(***************************************************************************)
(* The archives the runs are given.                                        *)
(***************************************************************************)
Cave == SceneDoc(<<1000, 800, 100, 50, 50>>, <<(<<125, 25>>), (<<0, 0>>)>>)

Crypt == SceneDoc(<<7, 5, 3, 3, -5>>, <<(<<-7, 12>>)>>)

MapImage == Entry(Name(<<"img">>, "map", "png"), Bytes(1))

Manifest ==
    Entry(Name(<<>>, "manifest", "json"), JsonText([name |-> JStr("Adventure")], "pretty"))

CaveScene == Entry(Name(<<"scene">>, "cave", "json"), JsonText(Cave, "pretty"))

\* a scene under a deeper directory whose last part is scene
CryptScene == Entry(Name(<<"data", "scene">>, "crypt", "json"), JsonText(Crypt, "compact"))

\* a scene document kept outside the scene directory
OldScene == Entry(Name(<<"scene", "old">>, "cave", "json"), JsonText(Cave, "pretty"))

\* a scene entry that is no JSON text
GarbageScene == Entry(Name(<<"scene">>, "broken", "json"), Bytes(2))

\* scene documents with a required key absent
NamelessScene ==
    Entry(Name(<<"scene">>, "nameless", "json"), JsonText(Without(Crypt, "name"), "pretty"))

WidthlessScene ==
    Entry(Name(<<"scene">>, "widthless", "json"), JsonText(Without(Crypt, "width"), "pretty"))

\* a scene document with an unknown key
ExtraKeyScene ==
    Entry(Name(<<"scene">>, "extra", "json"),
          JsonText(With(Crypt, "customKey", JStr("kept?")), "compact"))

\* a scene document whose token lacks the required field x
BadTokenScene ==
    Entry(Name(<<"scene">>, "badtoken", "json"),
          JsonText(With(Crypt, "tokens",
                        JArr(<<Without(EntityDoc("tokens", 1, <<0, 0>>), "x")>>)), "pretty"))

Archives ==
    { ZipOf(<<MapImage, CaveScene, Manifest>>),
      ZipOf(<<CryptScene, OldScene, MapImage>>),
      ZipOf(<<Manifest, ExtraKeyScene>>),
      ZipOf(<<MapImage, GarbageScene, Manifest>>),
      ZipOf(<<NamelessScene>>),
      ZipOf(<<CaveScene, WidthlessScene>>),
      ZipOf(<<MapImage, BadTokenScene>>),
      NotAZip }

BundleScales == {Dec(1, 2), Dec(2, 1)}

(***************************************************************************)
(* Spec: perform_scaling called on one AdventureBundle, up to MaxRuns      *)
(* times. The call is one synchronous method; it is modelled in the steps  *)
(* at which it can raise, and the with statement closes both archives on   *)
(* every exit.                                                             *)
(***************************************************************************)
Init ==
    /\ scenes = <<>>
    /\ filename = "None"
    /\ inputZip = NoFile
    /\ outputFile = NoFile
    /\ scaleArg = Dec(1, 1)
    /\ idx = 0
    /\ pc = "idle"
    /\ run = 0
    /\ nextId = 1
    /\ PointIdle
    /\ SceneIdle

\* perform_scaling is called: self.filename = input_file, then
\* copyfile(input_file.name, output_file)
Copy ==
    /\ pc \in {"idle", "done", "failed"}
    /\ run < MaxRuns
    /\ \E archive \in Archives, scale \in BundleScales :
          /\ inputZip' = archive
          /\ outputFile' = archive
          /\ scaleArg' = scale
    /\ filename' = "input_file"
    /\ run' = run + 1
    /\ idx' = 0
    /\ pc' = "copied"
    /\ UNCHANGED <<scenes, nextId, pointVars, sceneVars>>

\* ZipFile(input_file), then ZipFile(output_file, mode="w"), which truncates the
\* file at the output path
Open ==
    /\ pc = "copied"
    /\ inputZip.valid
    /\ outputFile' = [exists |-> TRUE, valid |-> FALSE, entries |-> <<>>]
    /\ idx' = 1
    /\ pc' = "scan"
    /\ UNCHANGED <<scenes, filename, inputZip, scaleArg, run, nextId, pointVars, sceneVars>>

\* ZipFile(input_file) raises BadZipFile: the output file is not opened
OpenRaises ==
    /\ pc = "copied"
    /\ ~inputZip.valid
    /\ pc' = "failed"
    /\ UNCHANGED <<scenes, filename, inputZip, outputFile, scaleArg, idx, run, nextId,
                   pointVars, sceneVars>>

\* the loop body for an entry that is no scene: writestr(compressed_item, opened_file)
PassThrough ==
    /\ pc = "scan"
    /\ idx <= Len(inputZip.entries)
    /\ ~PathMatch(inputZip.entries[idx].name)
    /\ outputFile' = [outputFile EXCEPT !.entries = Append(@, inputZip.entries[idx])]
    /\ idx' = idx + 1
    /\ UNCHANGED <<scenes, filename, inputZip, scaleArg, pc, run, nextId, pointVars, sceneVars>>

\* the loop body for a scene entry: parsed and held in self.scenes
HoldScene ==
    /\ pc = "scan"
    /\ idx <= Len(inputZip.entries)
    /\ PathMatch(inputZip.entries[idx].name)
    /\ CanParseScene(inputZip.entries[idx].data)
    /\ scenes' = DictSet(scenes, inputZip.entries[idx].name,
                         from_json_string(inputZip.entries[idx].data, nextId))
    /\ nextId' = nextId + EntityCount(inputZip.entries[idx].data.doc) * IdStride
    /\ idx' = idx + 1
    /\ UNCHANGED <<filename, inputZip, outputFile, scaleArg, pc, run, pointVars, sceneVars>>

\* Scene.from_json_string raises: the with statement closes the output archive
\* with the entries written so far
ParseRaises ==
    /\ pc = "scan"
    /\ idx <= Len(inputZip.entries)
    /\ PathMatch(inputZip.entries[idx].name)
    /\ ~CanParseScene(inputZip.entries[idx].data)
    /\ outputFile' = [outputFile EXCEPT !.valid = TRUE]
    /\ pc' = "failed"
    /\ UNCHANGED <<scenes, filename, inputZip, scaleArg, idx, run, nextId, pointVars, sceneVars>>

\* after the loop: self.scale_scenes(scale) returns
ScaleScenes ==
    /\ pc = "scan"
    /\ idx > Len(inputZip.entries)
    /\ AllReturn(scenes)
    /\ scenes' = scale_scenes(scenes, scaleArg, nextId).scenes
    /\ nextId' = scale_scenes(scenes, scaleArg, nextId).nid
    /\ pc' = "write"
    /\ UNCHANGED <<filename, inputZip, outputFile, scaleArg, idx, run, pointVars, sceneVars>>

\* self.scale_scenes(scale) raises
ScaleScenesRaises ==
    /\ pc = "scan"
    /\ idx > Len(inputZip.entries)
    /\ ~AllReturn(scenes)
    /\ scenes' = scale_scenes(scenes, scaleArg, nextId).scenes
    /\ nextId' = scale_scenes(scenes, scaleArg, nextId).nid
    /\ outputFile' = [outputFile EXCEPT !.valid = TRUE]
    /\ pc' = "failed"
    /\ UNCHANGED <<filename, inputZip, scaleArg, idx, run, pointVars, sceneVars>>

\* every held scene written under its key; the with statement closes the archives
WriteScenes ==
    /\ pc = "write"
    /\ outputFile' = [outputFile EXCEPT !.entries = @ \o WrittenScenes(scenes),
                                        !.valid = TRUE]
    /\ pc' = "done"
    /\ UNCHANGED <<scenes, filename, inputZip, scaleArg, idx, run, nextId, pointVars, sceneVars>>

Next ==
    \/ Copy
    \/ Open
    \/ OpenRaises
    \/ PassThrough
    \/ HoldScene
    \/ ParseRaises
    \/ ScaleScenes
    \/ ScaleScenesRaises
    \/ WriteScenes

Spec == Init /\ [][Next]_vars

(***************************************************************************)
(* Properties of Scene.scale_scene (SpecScene)                             *)
(***************************************************************************)
Abs(i) == IF i < 0 THEN -i ELSE i

\* r is an integer nearest to O*(1-s) + P*s, where O = shift * 0.5 and s = scale:
\* twice the distance, over the denominator 2 * scale.d, is at most one
NearestToDilation(r, shift, P, scale) ==
    2 * Abs(2 * scale.d * r - (shift * (scale.d - scale.n) + 2 * P * scale.n))
        <= 2 * scale.d

XYKinds == KindSet \ {"walls"}

\* C1: after scale_scene(s) returns, every token, light, sound, note and drawing,
\* and both endpoints of every wall (in the order [x1,y1,x2,y2]), sits per axis
\* at an integer nearest to O*(1-s) + P*s, with P its position before the call
\* and O = (shiftX*0.5, shiftY*0.5) of the shift values before the call.
C1_PositionsDilated ==
    spc = "scaled" =>
        LET sx == before["shift_x"].n
            sy == before["shift_y"].n
        IN  /\ \A k \in XYKinds : \A i \in 1..Len(scene[k]) :
                  /\ scene[k][i]["x"].t = "num"
                  /\ scene[k][i]["y"].t = "num"
                  /\ NearestToDilation(scene[k][i]["x"].n, sx, before[k][i]["x"].n, lastScale)
                  /\ NearestToDilation(scene[k][i]["y"].n, sy, before[k][i]["y"].n, lastScale)
            /\ \A i \in 1..Len(scene["walls"]) :
                  LET c == scene["walls"][i]["c"].l
                      c0 == before["walls"][i]["c"].l
                  IN  /\ Len(c) = 4
                      /\ NearestToDilation(c[1], sx, c0[1], lastScale)
                      /\ NearestToDilation(c[2], sy, c0[2], lastScale)
                      /\ NearestToDilation(c[3], sx, c0[3], lastScale)
                      /\ NearestToDilation(c[4], sy, c0[4], lastScale)

\* C1 witness: shiftX = shiftY = 50, a token at (125,25) and a wall from (125,25)
\* to (25,225), scaled by 2: the token is at (225,25), the wall at [225,25,25,425]
C1_Witness ==
    /\ spc = "scaled"
    /\ lastScale = Dec(2, 1)
    /\ before["shift_x"] = JNum(50) /\ before["shift_y"] = JNum(50)
    /\ Len(scene["tokens"]) >= 1 /\ Len(scene["walls"]) >= 1
    /\ before["tokens"][1]["x"] = JNum(125) /\ before["tokens"][1]["y"] = JNum(25)
    /\ scene["tokens"][1]["x"] = JNum(225) /\ scene["tokens"][1]["y"] = JNum(25)
    /\ before["walls"][1]["c"].l = <<125, 25, 25, 225>>
    /\ scene["walls"][1]["c"].l = <<225, 25, 25, 425>>

\* r is original * scale rounded to the nearest integer, a tie to the even one
RoundedProduct(r, original, scale) ==
    LET twice == 2 * Abs(scale.d * r - original * scale.n)
    IN  /\ twice <= scale.d
        /\ twice = scale.d => r % 2 = 0

\* C2: after scale_scene(s) returns, width, height, grid, shiftX and shiftY are
\* each round(original * s), rounded by the rule of Point.integer_x/integer_y.
C2_SizingRescaled ==
    spc = "scaled" =>
        \A a \in SizingAttrs :
            /\ scene[a].t = "num"
            /\ RoundedProduct(scene[a].n, before[a].n, lastScale)
            /\ LET p == Point(DecMul(DecOfInt(before[a].n), lastScale),
                              DecMul(DecOfInt(before[a].n), lastScale))
               IN  scene[a].n = integer_x(p) /\ scene[a].n = integer_y(p)

\* C2 witness: width 1000 scaled by 2 is 2000; and a tie, width 7 by 1/2, is 4
C2_Witness ==
    /\ spc = "scaled"
    /\ \/ lastScale = Dec(2, 1) /\ before["width"] = JNum(1000) /\ scene["width"] = JNum(2000)
       \/ lastScale = Dec(1, 2) /\ before["width"] = JNum(7) /\ scene["width"] = JNum(4)
    /\ before["height"] # scene["height"]

\* C5: scale_scene neither adds, removes nor reorders entities: each of the six
\* collections keeps its length, and its i-th element keeps the _id of the
\* original i-th element.
C5_CountAndOrderKept ==
    spc = "scaled" =>
        \A k \in KindSet :
            /\ Len(scene[k]) = Len(before[k])
            /\ \A i \in 1..Len(before[k]) : scene[k][i]["_id"] = before[k][i]["_id"]

\* C5 witness: a scaled scene with two tokens of different _id and a drawing
C5_Witness ==
    /\ spc = "scaled"
    /\ lastScale # Dec(1, 1)
    /\ Len(scene["tokens"]) >= 2
    /\ scene["tokens"][1]["_id"] # scene["tokens"][2]["_id"]
    /\ Len(scene["drawings"]) >= 1

\* the positional fields of an entity of a collection
Positional(k) == IF k = "walls" THEN {"c"} ELSE {"x", "y"}

\* C10: scale_scene changes only positional fields: the scaled copy has the
\* fields of the original and agrees with it on every field but x/y (c of a wall),
\* a Drawing's width and height included, and no dict or list of the copy is the
\* object an original record holds.
C10_OnlyPositionChanges ==
    spc = "scaled" =>
        \A k \in KindSet : \A i \in 1..Len(scene[k]) :
            /\ DOMAIN scene[k][i] = DOMAIN before[k][i]
            /\ \A f \in DOMAIN before[k][i] \ Positional(k) :
                  Plain(scene[k][i][f]) = Plain(before[k][i][f])
            /\ \A k0 \in KindSet : \A j \in 1..Len(before[k0]) :
                  IdsOf(scene[k][i]) \cap IdsOf(before[k0][j]) = {}

\* C10 witness: a drawing moved by the scaling, its width and height as before,
\* its flags a dict of its own
C10_Witness ==
    /\ spc = "scaled"
    /\ Len(scene["drawings"]) >= 1
    /\ scene["drawings"][1]["x"] # before["drawings"][1]["x"]
    /\ scene["drawings"][1]["width"] = JNum(40)
    /\ before["drawings"][1]["width"] = JNum(40)
    /\ scene["drawings"][1]["flags"].t = "obj"
    /\ scene["drawings"][1]["flags"].id # before["drawings"][1]["flags"].id

(***************************************************************************)
(* Properties of Point.translate_point and integer_x/integer_y (SpecPoint) *)
(***************************************************************************)
\* C6 as stated: two rounded translations about one origin, by s1 then by s2,
\* differ per axis from the one rounded translation by s1*s2 by at most 2.
C6_WithinTwoUnits ==
    calc.pc = "done" =>
        /\ Abs(calc.second.x.n - calc.single.x.n) <= 2
        /\ Abs(calc.second.y.n - calc.single.y.n) <= 2

\* C6 amended: the two differ per axis by at most s2/2 + 1: the rounding error of
\* the first application (at most 1/2) is multiplied by s2 in the second.
C6_WithinScaledTolerance ==
    calc.pc = "done" =>
        /\ 2 * calc.s2.d * Abs(calc.second.x.n - calc.single.x.n)
              <= calc.s2.n + 2 * calc.s2.d
        /\ 2 * calc.s2.d * Abs(calc.second.y.n - calc.single.y.n)
              <= calc.s2.n + 2 * calc.s2.d

\* C6 witness: both translations done with s2 = 10, the results more than 2 apart
C6_Witness ==
    /\ calc.pc = "done"
    /\ calc.s2 = Dec(10, 1)
    /\ Abs(calc.second.x.n - calc.single.x.n) > 2

(***************************************************************************)
(* Properties of AdventureBundle.perform_scaling (Spec)                    *)
(***************************************************************************)
\* an entry name whose last two parts are not scene and a file name in .json
OutsideSceneDir(name) ==
    \/ name.ext # "json"
    \/ name.dirs = <<>>
    \/ name.dirs[Len(name.dirs)] # "scene"

InputEntries == {inputZip.entries[i] : i \in 1..Len(inputZip.entries)}

OutputEntries == {outputFile.entries[j] : j \in 1..Len(outputFile.entries)}

HeldKeys == {scenes[i].key : i \in 1..Len(scenes)}

\* C3: when perform_scaling has failed, the file at the output path is the
\* complete copy of the input that copyfile made, never an archive holding only
\* a part of the entries.
C3_OutputIsCopyAfterFailure == pc = "failed" => outputFile = inputZip

\* C4: every entry of the input whose name does not match scene/*.json is in
\* the output of a finished run under the same name with the same bytes, and no
\* such entry is parsed and held as a scene.
C4_OtherEntriesPassThrough ==
    /\ pc = "done" => \A e \in InputEntries : OutsideSceneDir(e.name) => e \in OutputEntries
    /\ pc \in {"scan", "write", "done"} =>
          \A i \in 1..Len(inputZip.entries) :
             (i < idx /\ OutsideSceneDir(inputZip.entries[i].name)) =>
                inputZip.entries[i].name \notin HeldKeys

\* a finished run whose input held opaque bytes, a JSON text outside the scene
\* directory and a scene under it, the scene written rescaled
C4_Witness ==
    /\ pc = "done"
    /\ \E e \in InputEntries : e.data.kind = "bytes" /\ e \in OutputEntries
    /\ \E e \in InputEntries :
          e.name.ext = "json" /\ OutsideSceneDir(e.name) /\ e \in OutputEntries
    /\ \E e \in InputEntries : ~OutsideSceneDir(e.name) /\ e.name \in HeldKeys

\* C7: a scene document with a required key absent makes the construction
\* fail, so no scene entry that the run got past lacks a required key.
C7_IncompleteNeverHeld ==
    pc \in {"scan", "write", "done"} =>
       \A i \in 1..Len(inputZip.entries) :
          (i < idx /\ ~OutsideSceneDir(inputZip.entries[i].name)) =>
             /\ inputZip.entries[i].data.kind = "json"
             /\ RequiredSceneKeys \subseteq DOMAIN inputZip.entries[i].data.doc

\* C8: the scene written for a scene entry of the input has every top-level key
\* of the input document, and every key outside the five sizing attributes and
\* the six collections has the value it had in the input.
C8_RoundTripLossless ==
    (pc = "done" /\ run = 1) =>
       \A e \in InputEntries :
          ~OutsideSceneDir(e.name) =>
             \E o \in OutputEntries :
                /\ o.name = e.name
                /\ o.data.kind = "json"
                /\ DOMAIN e.data.doc \subseteq DOMAIN o.data.doc
                /\ \A k \in DOMAIN e.data.doc \ (SizingKeys \cup KindSet) :
                      o.data.doc[k] = e.data.doc[k]

\* C9: a scene is written only into the output of the run whose input held it,
\* scaled once by the factor of that run.
C9_WrittenOnceInOwnRun ==
    pc = "done" =>
       \A o \in OutputEntries :
          ~OutsideSceneDir(o.name) =>
             \E e \in InputEntries :
                /\ e.name = o.name
                /\ o.data.doc["width"] = JNum(ScaledSize(e.data.doc["width"].n, scaleArg))

====
